---- MODULE Spec2Model ----
(***************************************************************************)
(* Model of the recurring-reminder scheduler of the wellness application:  *)
(* NotificationService.scheduleReminder / cancelReminderNotifications /    *)
(* updateReminderNotifications and the persisted index of notification     *)
(* identifiers (the "Handle Index", AsyncStorage key                       *)
(* '@reminder_notification_ids'), running against the expo-notifications   *)
(* runtime.  Every `await` on the notification runtime or on AsyncStorage  *)
(* is one step of the model, so that asynchronous operations started from  *)
(* the reminders screen can interleave exactly where the code suspends.    *)
(***************************************************************************)
EXTENDS Integers, Sequences, FiniteSets, TLC

VARIABLES
    scheduled,      \* the runtime's live triggers: identifier -> trigger
    storedIds,      \* AsyncStorage value under NOTIFICATION_IDS_KEY
    procs,          \* the asynchronous operations in flight, one per slot
    opsStarted,     \* number of operations started so far
    failures,       \* number of Adapter / storage calls that have failed
    prev,           \* the disable that returned right before the current call
    lastOkDays,     \* per reminder: `days` of its last returned create/update
    notificationsEnabled,  \* AsyncStorage value under '@notifications_enabled'
    permission,     \* the notification permission status of the device
    svc,            \* the enableReminders / disableReminders call in flight
    screen,         \* the last handler of the reminders screen that ran
    start           \* triggers and index as they were when a call was made

fixedVars == <<notificationsEnabled, permission, svc>>

callerVars == <<screen, start>>

vars == <<scheduled, storedIds, procs, opsStarted, failures, prev, lastOkDays,
          notificationsEnabled, permission, svc, screen, start>>

(***************************************************************************)
(* Bounds of the model.                                                    *)
(***************************************************************************)
MaxOps == 3         \* operations started in one behaviour of Spec
MaxConcOps == 2     \* operations started in one behaviour of SpecConc
MaxInputOps == 2    \* operations started in one behaviour of SpecInputs
MaxFixedOps == 3    \* operations started in one behaviour of SpecFixed
MaxEquivOps == 2    \* operations started in one behaviour of SpecEquiv
MaxScreenOps == 2   \* handlers run in one behaviour of SpecScreen
MaxFailures == 1    \* failing Adapter / storage calls in one behaviour
NumProcs == 2       \* operations that may be in flight together

Procs == 1..NumProcs

(***************************************************************************)
(* Inputs: reminder ids, "HH:MM" strings (as character sequences) and the  *)
(* `days` arrays handed to the service (0 = Monday ... 6 = Sunday).        *)
(***************************************************************************)
ReminderIds == {"r1", "r2"}

Times == { <<"0", "9", ":", "0", "0">> }

DayLists == { <<0, 2, 4>>, <<5>>, <<0, 1, 2, 3, 4, 5, 6>>, <<>> }

\* what the unvalidated time text field and `days` array may also hold:
\* "25:00", "09:75", and a weekday listed twice
MalformedTimes == { <<"2", "5", ":", "0", "0">>, <<"0", "9", ":", "7", "5">> }

DuplicateDayLists == { <<0, 0>>, <<2, 4, 2>> }

AnyTimes == Times \cup MalformedTimes

AnyDayLists == { <<0, 2, 4>>, <<>> } \cup DuplicateDayLists

NaN == -1

(***************************************************************************)
(* time.split(':').map(Number)                                             *)
(***************************************************************************)
Digits == <<"0", "1", "2", "3", "4", "5", "6", "7", "8", "9">>

IsDigit(c) == \E k \in 1..10 : Digits[k] = c

DigitVal(c) == (CHOOSE k \in 1..10 : Digits[k] = c) - 1

RECURSIVE Split(_, _)
Split(s, sep) ==
    IF \A k \in 1..Len(s) : s[k] # sep
    THEN <<s>>
    ELSE LET j == CHOOSE k \in 1..Len(s) :
                     s[k] = sep /\ \A m \in 1..(k - 1) : s[m] # sep
         IN  <<SubSeq(s, 1, j - 1)>> \o Split(SubSeq(s, j + 1, Len(s)), sep)

RECURSIVE Number(_)
Number(s) ==
    IF s = <<>> THEN 0
    ELSE IF \E k \in 1..Len(s) : ~IsDigit(s[k]) THEN NaN
    ELSE Number(SubSeq(s, 1, Len(s) - 1)) * 10 + DigitVal(s[Len(s)])

\* a parse that hands the two parts over in the wrong order
ParseTimeSwapped(time) ==
    LET parts == Split(time, ":")
    IN  [hour   |-> IF Len(parts) >= 2 THEN Number(parts[2]) ELSE NaN,
         minute |-> Number(parts[1])]

ParseTime(time) ==
    LET parts == Split(time, ":")
    IN  [hour   |-> Number(parts[1]),
         minute |-> IF Len(parts) >= 2 THEN Number(parts[2]) ELSE NaN]

(***************************************************************************)
(* `reminder_${reminderId}_day${day}` and the trigger built for one day.   *)
(***************************************************************************)
NotificationId(reminderId, day) ==
    "reminder_" \o reminderId \o "_day" \o ToString(day)

\* a conversion that shifts every day and forgets that Sunday wraps to 1
RuntimeWeekdayNoWrap(day) == day + 2

RuntimeWeekday(day) == IF day = 6 THEN 1 ELSE day + 2

Trigger(day, hour, minute) ==
    [weekday |-> RuntimeWeekday(day), hour |-> hour, minute |-> minute,
     repeats |-> TRUE]

ScheduleRequest(reminderId, day, hour, minute) ==
    [identifier |-> NotificationId(reminderId, day),
     trigger    |-> Trigger(day, hour, minute)]

(***************************************************************************)
(* The notification runtime: scheduling under an identifier that is        *)
(* already live replaces that trigger; cancelling an absent identifier     *)
(* changes nothing.                                                        *)
(***************************************************************************)
ScheduleNotificationAsync(s, request) ==
    [k \in DOMAIN s \cup {request.identifier} |->
        IF k = request.identifier THEN request.trigger ELSE s[k]]

CancelScheduledNotificationAsync(s, identifier) ==
    [k \in DOMAIN s \ {identifier} |-> s[k]]

(***************************************************************************)
(* The persisted index: null, or the JSON text of an object that maps a    *)
(* reminderId to its array of identifiers.  The text is represented by the *)
(* object it encodes.                                                      *)
(***************************************************************************)
EmptyObj == [k \in {} |-> <<>>]

NullItem == [isNull |-> TRUE, obj |-> EmptyObj]

Stringify(allIds) == [isNull |-> FALSE, obj |-> allIds]

ParseStored(item) == IF item.isNull THEN EmptyObj ELSE item.obj

IdsOf(allIds, reminderId) ==
    IF reminderId \in DOMAIN allIds THEN allIds[reminderId] ELSE <<>>

SetProp(allIds, reminderId, ids) ==
    [k \in DOMAIN allIds \cup {reminderId} |->
        IF k = reminderId THEN ids ELSE allIds[k]]

\* a removal that drops the last identifier of the entry, not the entry
DeletePropPop(allIds, reminderId) ==
    [k \in DOMAIN allIds |->
        IF k = reminderId /\ allIds[k] # <<>>
        THEN SubSeq(allIds[k], 1, Len(allIds[k]) - 1)
        ELSE allIds[k]]

DeleteProp(allIds, reminderId) ==
    [k \in DOMAIN allIds \ {reminderId} |-> allIds[k]]

(***************************************************************************)
(* One asynchronous operation.  `op` is the public method that was called, *)
(* `frame` the call of cancelReminderNotifications it is currently inside  *)
(* (if any) and `pc` the await it is suspended at.  `reqs` and `cancelled`  *)
(* list the schedule requests and the cancel calls it has issued so far.   *)
(***************************************************************************)
IdleProc ==
    [op |-> "idle", pc |-> "idle", frame |-> "none", rid |-> "",
     time |-> <<>>, days |-> <<>>, hour |-> 0, minute |-> 0,
     ids |-> <<>>, i |-> 0, notificationIds |-> <<>>, allIds |-> EmptyObj,
     result |-> "none", reqs |-> <<>>, cancelled |-> <<>>,
     failedAt |-> <<>>]

NoPrev ==
    [op |-> "none", rid |-> "", failedAt |-> <<>>, ids |-> <<>>,
     scheduled |-> EmptyObj, storedIds |-> NullItem]

\* no enableReminders / disableReminders call in flight; `last` is the
\* most recently completed one and what it returned
IdleSvc ==
    [op |-> "idle", pc |-> "idle", result |-> "none", k |-> 0,
     failedAt |-> <<>>, last |-> [op |-> "none", result |-> "none"],
     before |-> [scheduled |-> EmptyObj, notificationsEnabled |-> "null"]]

NoHandler ==
    [n |-> 0, handler |-> "none", apiOk |-> FALSE, enabled |-> FALSE]

NoStart == [scheduled |-> EmptyObj, storedIds |-> NullItem]

InitReminders ==
    /\ scheduled = EmptyObj
    /\ storedIds = NullItem
    /\ procs = [p \in Procs |-> IdleProc]
    /\ opsStarted = 0
    /\ failures = 0
    /\ prev = NoPrev
    /\ lastOkDays = [r \in ReminderIds |-> <<>>]
    /\ notificationsEnabled = "null"
    /\ svc = IdleSvc
    /\ screen = NoHandler
    /\ start = NoStart

Init ==
    /\ InitReminders
    /\ permission = "undetermined"

AllIdle == \A p \in Procs : procs[p].op = "idle"

FirstIdle(p) ==
    /\ procs[p].op = "idle"
    /\ \A q \in Procs : q < p => procs[q].op # "idle"

MayFail(fail) == fail => failures < MaxFailures

CountFailure(fail) == failures' = IF fail THEN failures + 1 ELSE failures

\* the calls of an operation that failed so far: <<await, loop index>>
FailedAt(pr, fail) ==
    IF fail
    THEN Append(pr.failedAt,
                <<pr.pc, IF pr.pc \in {"cancelLoop", "schedLoop"}
                         THEN pr.i ELSE 0>>)
    ELSE pr.failedAt

(***************************************************************************)
(* Where an operation continues when its current call of                   *)
(* cancelReminderNotifications returns (it never throws).                  *)
(***************************************************************************)
EnterScheduleReminder(pr) ==
    LET t == ParseTime(pr.time)
    IN  [pr EXCEPT !.hour = t.hour, !.minute = t.minute,
                   !.frame = "schedule.cancel", !.pc = "getIds"]

\* a cancelReminderNotifications that starts over instead of returning
AfterCancelRestart(pr) ==
    CASE pr.frame = "cancel" ->
           [pr EXCEPT !.pc = "getIds"]
      [] pr.frame = "update.cancel" ->
           EnterScheduleReminder(pr)
      [] pr.frame = "schedule.cancel" ->
           [pr EXCEPT !.frame = "none", !.i = 1, !.notificationIds = <<>>,
                      !.pc = IF pr.days = <<>> THEN "saveGet" ELSE "schedLoop"]

\* a cancelReminderNotifications that reports its failure to the caller
AfterCancelThrows(pr) ==
    IF pr.failedAt # <<>>
    THEN [pr EXCEPT !.pc = "done", !.result = "threw", !.frame = "none"]
    ELSE CASE pr.frame = "cancel" ->
                [pr EXCEPT !.pc = "done", !.result = "ok", !.frame = "none"]
           [] pr.frame = "update.cancel" ->
                EnterScheduleReminder(pr)
           [] pr.frame = "schedule.cancel" ->
                [pr EXCEPT !.frame = "none", !.i = 1, !.notificationIds = <<>>,
                           !.pc = IF pr.days = <<>>
                                  THEN "saveGet" ELSE "schedLoop"]

AfterCancel(pr) ==
    CASE pr.frame = "cancel" ->
           [pr EXCEPT !.pc = "done", !.result = "ok", !.frame = "none"]
      [] pr.frame = "update.cancel" ->
           EnterScheduleReminder(pr)
      [] pr.frame = "schedule.cancel" ->
           [pr EXCEPT !.frame = "none", !.i = 1, !.notificationIds = <<>>,
                      !.pc = IF pr.days = <<>> THEN "saveGet" ELSE "schedLoop"]

Awaited == AllIdle /\ opsStarted < MaxOps

Overlapping == opsStarted < MaxConcOps

(***************************************************************************)
(* The three public operations are called.                                 *)
(***************************************************************************)
ScheduleReminder(p, reminderId, time, days) ==
    /\ FirstIdle(p)
    /\ procs' = [procs EXCEPT ![p] =
          EnterScheduleReminder(
             [IdleProc EXCEPT !.op = "scheduleReminder", !.rid = reminderId,
                              !.time = time, !.days = days])]
    /\ opsStarted' = opsStarted + 1
    /\ prev' = NoPrev
    /\ UNCHANGED <<scheduled, storedIds, failures, lastOkDays>>
    /\ UNCHANGED fixedVars

CancelReminderNotifications(p, reminderId) ==
    /\ FirstIdle(p)
    /\ procs' = [procs EXCEPT ![p] =
          [IdleProc EXCEPT !.op = "cancelReminderNotifications",
                           !.rid = reminderId, !.frame = "cancel",
                           !.pc = "getIds"]]
    /\ opsStarted' = opsStarted + 1
    /\ prev' = IF prev.rid = reminderId THEN prev ELSE NoPrev
    /\ UNCHANGED <<scheduled, storedIds, failures, lastOkDays>>
    /\ UNCHANGED fixedVars

\* an update that cancels and forgets to schedule
UpdateCancelOnly(p, reminderId, time, days) ==
    /\ FirstIdle(p)
    /\ procs' = [procs EXCEPT ![p] =
          [IdleProc EXCEPT !.op = "updateReminderNotifications",
                           !.rid = reminderId, !.time = time, !.days = days,
                           !.frame = "cancel", !.pc = "getIds"]]
    /\ opsStarted' = opsStarted + 1
    /\ prev' = NoPrev
    /\ UNCHANGED <<scheduled, storedIds, failures, lastOkDays>>
    /\ UNCHANGED fixedVars

UpdateReminderNotifications(p, reminderId, time, days) ==
    /\ FirstIdle(p)
    /\ procs' = [procs EXCEPT ![p] =
          [IdleProc EXCEPT !.op = "updateReminderNotifications",
                           !.rid = reminderId, !.time = time, !.days = days,
                           !.frame = "update.cancel", !.pc = "getIds"]]
    /\ opsStarted' = opsStarted + 1
    /\ prev' = NoPrev
    /\ UNCHANGED <<scheduled, storedIds, failures, lastOkDays>>
    /\ UNCHANGED fixedVars

(***************************************************************************)
(* cancelReminderNotifications, one await at a time.                       *)
(***************************************************************************)
GetNotificationIds(p, fail) ==
    LET pr  == procs[p]
        ids == IF fail THEN <<>>
               ELSE IdsOf(ParseStored(storedIds), pr.rid)
    IN  /\ pr.pc = "getIds"
        /\ MayFail(fail)
        /\ procs' = [procs EXCEPT ![p] =
              [pr EXCEPT !.ids = ids, !.i = 1, !.failedAt = FailedAt(pr, fail),
                         !.pc = IF ids = <<>> THEN "rmGet" ELSE "cancelLoop"]]
        /\ CountFailure(fail)
        /\ UNCHANGED <<scheduled, storedIds, opsStarted, prev, lastOkDays>>
        /\ UNCHANGED <<fixedVars, callerVars>>

CancelLoop(p, fail) ==
    LET pr == procs[p]
    IN  /\ pr.pc = "cancelLoop"
        /\ MayFail(fail)
        /\ IF fail
           THEN /\ procs' = [procs EXCEPT ![p] =
                      AfterCancel([pr EXCEPT
                         !.cancelled = Append(@, pr.ids[pr.i]),
                         !.failedAt = FailedAt(pr, TRUE)])]
                /\ UNCHANGED scheduled
           ELSE /\ scheduled' =
                      CancelScheduledNotificationAsync(scheduled, pr.ids[pr.i])
                /\ procs' = [procs EXCEPT ![p] =
                      [pr EXCEPT !.cancelled = Append(@, pr.ids[pr.i]),
                                 !.i = pr.i + 1,
                                 !.pc = IF pr.i + 1 > Len(pr.ids)
                                        THEN "rmGet" ELSE "cancelLoop"]]
        /\ CountFailure(fail)
        /\ UNCHANGED <<storedIds, opsStarted, prev, lastOkDays>>
        /\ UNCHANGED <<fixedVars, callerVars>>

RemoveGet(p, fail) ==
    LET pr == procs[p]
    IN  /\ pr.pc = "rmGet"
        /\ MayFail(fail)
        /\ procs' = [procs EXCEPT ![p] =
              IF fail
              THEN AfterCancel([pr EXCEPT !.failedAt = FailedAt(pr, TRUE)])
              ELSE [pr EXCEPT !.allIds = ParseStored(storedIds),
                              !.pc = "rmSet"]]
        /\ CountFailure(fail)
        /\ UNCHANGED <<scheduled, storedIds, opsStarted, prev, lastOkDays>>
        /\ UNCHANGED <<fixedVars, callerVars>>

RemoveSet(p, fail) ==
    LET pr == procs[p]
    IN  /\ pr.pc = "rmSet"
        /\ MayFail(fail)
        /\ storedIds' = IF fail THEN storedIds
                        ELSE Stringify(DeleteProp(pr.allIds, pr.rid))
        /\ procs' = [procs EXCEPT ![p] =
              AfterCancel([pr EXCEPT !.failedAt = FailedAt(pr, fail),
                                     !.allIds = EmptyObj])]
        /\ CountFailure(fail)
        /\ UNCHANGED <<scheduled, opsStarted, prev, lastOkDays>>
        /\ UNCHANGED <<fixedVars, callerVars>>

(***************************************************************************)
(* scheduleReminder after its cancel: the loop over `days` and the save.   *)
(* Its catch logs and rethrows, and updateReminderNotifications awaits it  *)
(* without a try, so the rejection reaches the caller of either method.    *)
(***************************************************************************)
RethrowSwallowed(pr) == [pr EXCEPT !.pc = "done", !.result = "ok"]

Rethrow(pr) == [pr EXCEPT !.pc = "done", !.result = "threw"]

ScheduleLoop(p, fail) ==
    LET pr  == procs[p]
        req == ScheduleRequest(pr.rid, pr.days[pr.i], pr.hour, pr.minute)
    IN  /\ pr.pc = "schedLoop"
        /\ MayFail(fail)
        /\ IF fail
           THEN /\ procs' = [procs EXCEPT ![p] =
                      Rethrow([pr EXCEPT !.reqs = Append(@, req),
                                         !.failedAt = FailedAt(pr, TRUE)])]
                /\ UNCHANGED scheduled
           ELSE /\ scheduled' = ScheduleNotificationAsync(scheduled, req)
                /\ procs' = [procs EXCEPT ![p] =
                      [pr EXCEPT !.reqs = Append(@, req),
                                 !.notificationIds = Append(@, req.identifier),
                                 !.i = pr.i + 1,
                                 !.pc = IF pr.i + 1 > Len(pr.days)
                                        THEN "saveGet" ELSE "schedLoop"]]
        /\ CountFailure(fail)
        /\ UNCHANGED <<storedIds, opsStarted, prev, lastOkDays>>
        /\ UNCHANGED <<fixedVars, callerVars>>

SaveGet(p, fail) ==
    LET pr == procs[p]
    IN  /\ pr.pc = "saveGet"
        /\ MayFail(fail)
        /\ procs' = [procs EXCEPT ![p] =
              IF fail
              THEN [pr EXCEPT !.failedAt = FailedAt(pr, TRUE),
                              !.pc = "done", !.result = "ok"]
              ELSE [pr EXCEPT !.allIds = ParseStored(storedIds),
                              !.pc = "saveSet"]]
        /\ CountFailure(fail)
        /\ UNCHANGED <<scheduled, storedIds, opsStarted, prev, lastOkDays>>
        /\ UNCHANGED <<fixedVars, callerVars>>

SaveSet(p, fail) ==
    LET pr == procs[p]
    IN  /\ pr.pc = "saveSet"
        /\ MayFail(fail)
        /\ storedIds' = IF fail THEN storedIds
                        ELSE Stringify(SetProp(pr.allIds, pr.rid,
                                               pr.notificationIds))
        /\ procs' = [procs EXCEPT ![p] =
              [pr EXCEPT !.failedAt = FailedAt(pr, fail), !.allIds = EmptyObj,
                         !.pc = "done", !.result = "ok"]]
        /\ CountFailure(fail)
        /\ UNCHANGED <<scheduled, opsStarted, prev, lastOkDays>>
        /\ UNCHANGED <<fixedVars, callerVars>>

(***************************************************************************)
(* The awaiting caller resumes with the operation's outcome.               *)
(***************************************************************************)
Return(p) ==
    LET pr == procs[p]
    IN  /\ pr.pc = "done"
        /\ prev' = IF pr.op = "cancelReminderNotifications"
                    THEN [op |-> pr.op, rid |-> pr.rid,
                          failedAt |-> pr.failedAt, ids |-> pr.ids,
                          scheduled |-> scheduled, storedIds |-> storedIds]
                    ELSE NoPrev
        /\ lastOkDays' =
              IF pr.op = "cancelReminderNotifications"
              THEN [lastOkDays EXCEPT ![pr.rid] = <<>>]
              ELSE IF pr.result = "ok"
              THEN [lastOkDays EXCEPT ![pr.rid] = pr.days]
              ELSE lastOkDays
        /\ procs' = [procs EXCEPT ![p] = IdleProc]
        /\ UNCHANGED <<scheduled, storedIds, opsStarted, failures>>
        /\ UNCHANGED <<fixedVars, callerVars>>

Step(p) ==
    \E fail \in BOOLEAN :
        \/ GetNotificationIds(p, fail)
        \/ CancelLoop(p, fail)
        \/ RemoveGet(p, fail)
        \/ RemoveSet(p, fail)
        \/ ScheduleLoop(p, fail)
        \/ SaveGet(p, fail)
        \/ SaveSet(p, fail)

(***************************************************************************)
(* Spec: every operation is awaited before the next one is called.         *)
(***************************************************************************)
AwaitedSchedule(p, r, t, d) ==
    Awaited /\ ScheduleReminder(p, r, t, d) /\ UNCHANGED callerVars

AwaitedCancel(p, r) ==
    Awaited /\ CancelReminderNotifications(p, r) /\ UNCHANGED callerVars

AwaitedUpdate(p, r, t, d) ==
    Awaited /\ UpdateReminderNotifications(p, r, t, d) /\ UNCHANGED callerVars

Next ==
    \/ \E p \in Procs, r \in ReminderIds, t \in Times, d \in DayLists :
          AwaitedSchedule(p, r, t, d)
    \/ \E p \in Procs, r \in ReminderIds :
          AwaitedCancel(p, r)
    \/ \E p \in Procs, r \in ReminderIds, t \in Times, d \in DayLists :
          AwaitedUpdate(p, r, t, d)
    \/ \E p \in Procs : Step(p)
    \/ \E p \in Procs : Return(p)

Spec == Init /\ [][Next]_vars

(***************************************************************************)
(* SpecConc: operations are called while others are still in flight, as    *)
(* the reminders screen does when two switches are toggled in a row.       *)
(***************************************************************************)
OverlappingSchedule(p, r, t, d) ==
    Overlapping /\ ScheduleReminder(p, r, t, d) /\ UNCHANGED callerVars

OverlappingCancel(p, r) ==
    Overlapping /\ CancelReminderNotifications(p, r) /\ UNCHANGED callerVars

OverlappingUpdate(p, r, t, d) ==
    /\ Overlapping /\ UpdateReminderNotifications(p, r, t, d)
    /\ UNCHANGED callerVars

NextConc ==
    \/ \E p \in Procs, r \in ReminderIds, t \in Times, d \in DayLists :
          OverlappingSchedule(p, r, t, d)
    \/ \E p \in Procs, r \in ReminderIds :
          OverlappingCancel(p, r)
    \/ \E p \in Procs, r \in ReminderIds, t \in Times, d \in DayLists :
          OverlappingUpdate(p, r, t, d)
    \/ \E p \in Procs : Step(p)
    \/ \E p \in Procs : Return(p)

SpecConc == Init /\ [][NextConc]_vars

(***************************************************************************)
(* SpecInputs: awaited operations whose `time` and `days` arguments are    *)
(* whatever the caller passes; neither the screen nor the service checks   *)
(* them.                                                                   *)
(***************************************************************************)
AnyInput == AllIdle /\ opsStarted < MaxInputOps

AnyInputSchedule(p, r, t, d) ==
    AnyInput /\ ScheduleReminder(p, r, t, d) /\ UNCHANGED callerVars

AnyInputCancel(p, r) ==
    AnyInput /\ CancelReminderNotifications(p, r) /\ UNCHANGED callerVars

AnyInputUpdate(p, r, t, d) ==
    /\ AnyInput /\ UpdateReminderNotifications(p, r, t, d)
    /\ UNCHANGED callerVars

NextInputs ==
    \/ \E p \in Procs, r \in ReminderIds, t \in AnyTimes, d \in AnyDayLists :
          AnyInputSchedule(p, r, t, d)
    \/ \E p \in Procs, r \in ReminderIds :
          AnyInputCancel(p, r)
    \/ \E p \in Procs, r \in ReminderIds, t \in AnyTimes, d \in AnyDayLists :
          AnyInputUpdate(p, r, t, d)
    \/ \E p \in Procs : Step(p)
    \/ \E p \in Procs : Return(p)

SpecInputs == Init /\ [][NextInputs]_vars

(***************************************************************************)
(* Awaited calls of scheduleReminder and updateReminderNotifications that  *)
(* remember the triggers and the index they started from, and what         *)
(* scheduleReminder makes of such a state when none of its calls fails:    *)
(* cancel the recorded identifiers, delete the entry, schedule one trigger *)
(* per element of days, store the new entry.                               *)
(***************************************************************************)
RECURSIVE CancelEach(_, _)
CancelEach(s, ids) ==
    IF ids = <<>> THEN s
    ELSE CancelEach(CancelScheduledNotificationAsync(s, Head(ids)), Tail(ids))

RECURSIVE ScheduleEach(_, _, _, _, _)
ScheduleEach(s, reminderId, days, hour, minute) ==
    IF days = <<>> THEN s
    ELSE ScheduleEach(
            ScheduleNotificationAsync(
               s, ScheduleRequest(reminderId, Head(days), hour, minute)),
            reminderId, Tail(days), hour, minute)

ScheduleEffect(st, reminderId, time, days) ==
    LET t       == ParseTime(time)
        allIds  == ParseStored(st.storedIds)
        removed == DeleteProp(allIds, reminderId)
        notificationIds ==
            [k \in 1..Len(days) |-> NotificationId(reminderId, days[k])]
    IN  [scheduled |->
            ScheduleEach(CancelEach(st.scheduled, IdsOf(allIds, reminderId)),
                         reminderId, days, t.hour, t.minute),
         storedIds |->
            Stringify(SetProp(removed, reminderId, notificationIds))]

AwaitedEquiv == AllIdle /\ opsStarted < MaxEquivOps

Snapshot ==
    /\ start' = [scheduled |-> scheduled, storedIds |-> storedIds]
    /\ UNCHANGED screen

EquivSchedule(p, r, t, d) ==
    AwaitedEquiv /\ ScheduleReminder(p, r, t, d) /\ Snapshot

EquivUpdate(p, r, t, d) ==
    AwaitedEquiv /\ UpdateReminderNotifications(p, r, t, d) /\ Snapshot

NextEquiv ==
    \/ \E p \in Procs, r \in ReminderIds, t \in Times, d \in DayLists :
          EquivSchedule(p, r, t, d)
    \/ \E p \in Procs, r \in ReminderIds, t \in Times, d \in DayLists :
          EquivUpdate(p, r, t, d)
    \/ \E p \in Procs : Step(p)
    \/ \E p \in Procs : Return(p)

SpecEquiv == Init /\ [][NextEquiv]_vars

(***************************************************************************)
(* The handlers of the reminders screen.  Each awaits its request to the   *)
(* remote API first; apiOk tells whether the request succeeded, a failed   *)
(* request lands in the handler's catch.  The handler then awaits the      *)
(* scheduler call, whose awaits are the steps above.  `known` tells        *)
(* whether reminders.find located the reminder in the list on screen.      *)
(***************************************************************************)
AwaitedScreen == AllIdle /\ opsStarted < MaxScreenOps

Handled(handler, apiOk, enabled) ==
    /\ screen' = [n |-> screen.n + 1, handler |-> handler,
                  apiOk |-> apiOk, enabled |-> enabled]
    /\ UNCHANGED start

NoSchedulerCall ==
    /\ opsStarted' = opsStarted + 1
    /\ UNCHANGED <<scheduled, storedIds, procs, failures, prev, lastOkDays>>
    /\ UNCHANGED fixedVars

ToggleReminder(p, id, enabled, apiOk, known, time, days) ==
    /\ AwaitedScreen
    /\ Handled("toggleReminder", apiOk, enabled)
    /\ IF apiOk /\ known
       THEN IF enabled
            THEN ScheduleReminder(p, id, time, days)
            ELSE CancelReminderNotifications(p, id)
       ELSE FirstIdle(p) /\ NoSchedulerCall

DeleteReminder(p, id, apiOk) ==
    /\ AwaitedScreen
    /\ Handled("deleteReminder", apiOk, FALSE)
    /\ IF apiOk
       THEN CancelReminderNotifications(p, id)
       ELSE FirstIdle(p) /\ NoSchedulerCall

\* a createReminder that schedules before it knows the answer of the API
CreateReminderOptimistic(p, titleOk, apiOk, id, enabled, time, days) ==
    /\ AwaitedScreen
    /\ Handled("createReminder", titleOk /\ apiOk, enabled)
    /\ IF titleOk /\ enabled
       THEN ScheduleReminder(p, id, time, days)
       ELSE FirstIdle(p) /\ NoSchedulerCall

\* id, enabled, time and days are those of the reminder the API answered
CreateReminder(p, titleOk, apiOk, id, enabled, time, days) ==
    /\ AwaitedScreen
    /\ Handled("createReminder", titleOk /\ apiOk, enabled)
    /\ IF titleOk /\ apiOk /\ enabled
       THEN ScheduleReminder(p, id, time, days)
       ELSE FirstIdle(p) /\ NoSchedulerCall

NextScreen ==
    \/ \E p \in Procs, id \in ReminderIds, enabled, apiOk, known \in BOOLEAN,
          t \in Times, d \in DayLists :
          ToggleReminder(p, id, enabled, apiOk, known, t, d)
    \/ \E p \in Procs, id \in ReminderIds, apiOk \in BOOLEAN :
          DeleteReminder(p, id, apiOk)
    \/ \E p \in Procs, id \in ReminderIds, titleOk, apiOk, enabled \in BOOLEAN,
          t \in Times, d \in DayLists :
          CreateReminder(p, titleOk, apiOk, id, enabled, t, d)
    \/ \E p \in Procs : Step(p)
    \/ \E p \in Procs : Return(p)

SpecScreen == Init /\ [][NextScreen]_vars

(***************************************************************************)
(* The three fixed daily reminders and the global switch: enableReminders, *)
(* disableReminders and areRemindersEnabled on a physical, non-web device  *)
(* (Platform.OS !== 'web', Device.isDevice).  One await is one step.  The   *)
(* class declares cancelAllNotifications twice; the later declaration is   *)
(* the method that exists at run time, and it does not touch the index.    *)
(***************************************************************************)
PermissionStatuses == {"granted", "denied", "undetermined"}

\* in the order enableReminders schedules them
FixedReminders ==
    << [identifier |-> "mission_reminder", hour |-> 10, minute |-> 0],
       [identifier |-> "humor_reminder", hour |-> 18, minute |-> 0],
       [identifier |-> "evening_reminder", hour |-> 20, minute |-> 0] >>

FixedRequest(k) ==
    [identifier |-> FixedReminders[k].identifier,
     trigger |-> [hour |-> FixedReminders[k].hour,
                  minute |-> FixedReminders[k].minute, repeats |-> TRUE]]

FixedDayLists == { <<5>> }

SvcFailedAt(fail) ==
    IF fail THEN Append(svc.failedAt, <<svc.pc, svc.k>>) ELSE svc.failedAt

Sequential == AllIdle /\ svc.op = "idle" /\ opsStarted < MaxFixedOps

\* a call in flight; before is the state the call found, for the properties
SvcCall(op, pc) ==
    [IdleSvc EXCEPT !.op = op, !.pc = pc, !.last = svc.last,
                    !.before = [scheduled |-> scheduled,
                                notificationsEnabled |-> notificationsEnabled]]

SvcFrame == UNCHANGED <<storedIds, procs, prev, lastOkDays, callerVars>>

EnableReminders ==
    /\ Sequential
    /\ svc' = SvcCall("enableReminders", "getPermissions")
    /\ opsStarted' = opsStarted + 1
    /\ UNCHANGED <<scheduled, failures, notificationsEnabled, permission>>
    /\ SvcFrame

DisableReminders ==
    /\ Sequential
    /\ svc' = SvcCall("disableReminders", "cancelAll")
    /\ opsStarted' = opsStarted + 1
    /\ UNCHANGED <<scheduled, failures, notificationsEnabled, permission>>
    /\ SvcFrame

AreRemindersEnabled ==
    /\ Sequential
    /\ svc' = SvcCall("areRemindersEnabled", "getEnabled")
    /\ opsStarted' = opsStarted + 1
    /\ UNCHANGED <<scheduled, failures, notificationsEnabled, permission>>
    /\ SvcFrame

\* requestPermissions: any rejection is caught and answered with false
GetPermissionsAsync(fail) ==
    /\ svc.pc = "getPermissions"
    /\ MayFail(fail)
    /\ svc' = IF fail
              THEN [svc EXCEPT !.failedAt = SvcFailedAt(TRUE),
                               !.pc = "done", !.result = FALSE]
              ELSE [svc EXCEPT !.pc = IF permission = "granted"
                                      THEN "setChannel"
                                      ELSE "requestPermissions"]
    /\ CountFailure(fail)
    /\ UNCHANGED <<scheduled, opsStarted, notificationsEnabled, permission>>
    /\ SvcFrame

\* a request that proceeds whatever the user answers
RequestPermissionsAsyncIgnored(status, fail) ==
    /\ svc.pc = "requestPermissions"
    /\ MayFail(fail)
    /\ status \in {"granted", "denied"}
    /\ permission' = IF fail THEN permission ELSE status
    /\ svc' = [svc EXCEPT !.failedAt = SvcFailedAt(fail), !.pc = "setChannel"]
    /\ CountFailure(fail)
    /\ UNCHANGED <<scheduled, opsStarted, notificationsEnabled>>
    /\ SvcFrame

RequestPermissionsAsync(status, fail) ==
    /\ svc.pc = "requestPermissions"
    /\ MayFail(fail)
    /\ status \in {"granted", "denied"}
    /\ permission' = IF fail THEN permission ELSE status
    /\ svc' = IF fail \/ status # "granted"
              THEN [svc EXCEPT !.failedAt = SvcFailedAt(fail),
                               !.pc = "done", !.result = FALSE]
              ELSE [svc EXCEPT !.pc = "setChannel"]
    /\ CountFailure(fail)
    /\ UNCHANGED <<scheduled, opsStarted, notificationsEnabled>>
    /\ SvcFrame

\* Android only; on iOS the call is not made, which is the step that succeeds
SetNotificationChannelAsync(fail) ==
    /\ svc.pc = "setChannel"
    /\ MayFail(fail)
    /\ svc' = IF fail
              THEN [svc EXCEPT !.failedAt = SvcFailedAt(TRUE),
                               !.pc = "done", !.result = FALSE]
              ELSE [svc EXCEPT !.pc = "cancelFixed", !.k = 1]
    /\ CountFailure(fail)
    /\ UNCHANGED <<scheduled, opsStarted, notificationsEnabled, permission>>
    /\ SvcFrame

\* schedule<X>Reminder: cancelNotification swallows a rejection, and so does
\* the method itself when scheduleNotificationAsync rejects
CancelNotification(fail) ==
    /\ svc.pc = "cancelFixed"
    /\ MayFail(fail)
    /\ scheduled' =
          IF fail THEN scheduled
          ELSE CancelScheduledNotificationAsync(
                  scheduled, FixedReminders[svc.k].identifier)
    /\ svc' = [svc EXCEPT !.failedAt = SvcFailedAt(fail),
                          !.pc = "scheduleFixed"]
    /\ CountFailure(fail)
    /\ UNCHANGED <<opsStarted, notificationsEnabled, permission>>
    /\ SvcFrame

ScheduleFixedReminder(fail) ==
    /\ svc.pc = "scheduleFixed"
    /\ MayFail(fail)
    /\ scheduled' =
          IF fail THEN scheduled
          ELSE ScheduleNotificationAsync(scheduled, FixedRequest(svc.k))
    /\ svc' = [svc EXCEPT !.failedAt = SvcFailedAt(fail),
                          !.k = IF svc.k < Len(FixedReminders)
                                THEN svc.k + 1 ELSE svc.k,
                          !.pc = IF svc.k < Len(FixedReminders)
                                 THEN "cancelFixed" ELSE "setEnabled"]
    /\ CountFailure(fail)
    /\ UNCHANGED <<opsStarted, notificationsEnabled, permission>>
    /\ SvcFrame

\* the cancelAllNotifications in force (the second declaration)
CancelAllNotifications(fail) ==
    /\ svc.pc = "cancelAll"
    /\ MayFail(fail)
    /\ scheduled' = IF fail THEN scheduled ELSE EmptyObj
    /\ svc' = [svc EXCEPT !.failedAt = SvcFailedAt(fail), !.pc = "setEnabled"]
    /\ CountFailure(fail)
    /\ UNCHANGED <<opsStarted, notificationsEnabled, permission>>
    /\ SvcFrame

\* setStorageItem('@notifications_enabled', ...): a rejection is caught and
\* the localStorage fallback is web only
SetStorageItem(fail) ==
    /\ svc.pc = "setEnabled"
    /\ MayFail(fail)
    /\ notificationsEnabled' =
          IF fail THEN notificationsEnabled
          ELSE IF svc.op = "enableReminders" THEN "true" ELSE "false"
    /\ svc' = [svc EXCEPT !.failedAt = SvcFailedAt(fail), !.pc = "done",
                          !.result = (svc.op = "enableReminders")]
    /\ CountFailure(fail)
    /\ UNCHANGED <<scheduled, opsStarted, permission>>
    /\ SvcFrame

\* getStorageItem: a rejection is caught and answered with null
GetStorageItem(fail) ==
    /\ svc.pc = "getEnabled"
    /\ MayFail(fail)
    /\ svc' = [svc EXCEPT !.failedAt = SvcFailedAt(fail), !.pc = "done",
                          !.result = (~fail /\ notificationsEnabled = "true")]
    /\ CountFailure(fail)
    /\ UNCHANGED <<scheduled, opsStarted, notificationsEnabled, permission>>
    /\ SvcFrame

ReturnSvc ==
    /\ svc.pc = "done"
    /\ svc' = [IdleSvc EXCEPT !.last =
                  IF svc.op = "areRemindersEnabled" THEN svc.last
                  ELSE [op |-> svc.op, result |-> svc.result]]
    /\ UNCHANGED <<scheduled, opsStarted, failures, notificationsEnabled,
                   permission>>
    /\ SvcFrame

FixedSchedule(p, r, t, d) ==
    Sequential /\ ScheduleReminder(p, r, t, d) /\ UNCHANGED callerVars

SvcStep ==
    \E fail \in BOOLEAN :
        \/ GetPermissionsAsync(fail)
        \/ \E status \in PermissionStatuses :
              RequestPermissionsAsync(status, fail)
        \/ SetNotificationChannelAsync(fail)
        \/ CancelNotification(fail)
        \/ ScheduleFixedReminder(fail)
        \/ CancelAllNotifications(fail)
        \/ SetStorageItem(fail)
        \/ GetStorageItem(fail)

InitFixed ==
    /\ InitReminders
    /\ permission \in PermissionStatuses

NextFixed ==
    \/ EnableReminders
    \/ DisableReminders
    \/ AreRemindersEnabled
    \/ SvcStep
    \/ ReturnSvc
    \/ \E p \in Procs, r \in ReminderIds, t \in Times, d \in FixedDayLists :
          FixedSchedule(p, r, t, d)
    \/ \E p \in Procs : Step(p)
    \/ \E p \in Procs : Return(p)

SpecFixed == InitFixed /\ [][NextFixed]_vars

(***************************************************************************)
(* Vocabulary of the properties below.                                     *)
(***************************************************************************)
Range(seq) == {seq[k] : k \in 1..Len(seq)}

WeekDays == 0..6

Live == DOMAIN scheduled

HasEntry(r) == ~storedIds.isNull /\ r \in DOMAIN storedIds.obj

IndexEntry(r) == IF HasEntry(r) THEN storedIds.obj[r] ELSE <<>>

CompositeKey(r, d) == "reminder_" \o r \o "_day" \o ToString(d)

KeysFor(r, D) == {CompositeKey(r, d) : d \in D}

Returned(pr) == pr.pc = "done"

NoFailure(pr) == pr.failedAt = <<>>

ReturnedOk(pr) == pr.pc = "done" /\ pr.result = "ok"

IsCreateOrUpdate(pr) ==
    pr.op \in {"scheduleReminder", "updateReminderNotifications"}

IsDisable(pr) == pr.op = "cancelReminderNotifications"

\* C1 (as claimed): when scheduleReminder or updateReminderNotifications has
\* returned normally for reminder r with day set D, the index entry of r
\* holds exactly |D| keys, one reminder_<r>_day<d> per d in D, all live.
C1_CoverageAfterSuccess ==
    \A p \in Procs :
        LET pr == procs[p]
            D  == Range(pr.days)
        IN  (ReturnedOk(pr) /\ IsCreateOrUpdate(pr)) =>
               /\ Len(IndexEntry(pr.rid)) = Cardinality(D)
               /\ Range(IndexEntry(pr.rid)) = KeysFor(pr.rid, D)
               /\ KeysFor(pr.rid, D) \subseteq Live

\* C2 (as claimed): when cancelReminderNotifications(r) has returned, from
\* any reachable prior state, the index holds no entry for r and no trigger
\* reminder_<r>_day<d> is live.  Stated for the calls in which no Adapter or
\* storage call of the disable itself fails.
C2_EmptyAfterDisable ==
    \A p \in Procs :
        LET pr == procs[p]
        IN  (Returned(pr) /\ IsDisable(pr) /\ NoFailure(pr)) =>
               /\ ~HasEntry(pr.rid)
               /\ KeysFor(pr.rid, WeekDays) \cap Live = {}

\* C3 (as claimed): when a schedule call failed part-way through a create,
\* at the return of the operation no trigger of that reminder's days is
\* live and the index holds no entry for the reminder.
C3_RollbackOnPartialFailure ==
    \A p \in Procs :
        LET pr == procs[p]
        IN  (Returned(pr) /\ pr.result = "threw") =>
               /\ KeysFor(pr.rid, Range(pr.days)) \cap Live = {}
               /\ ~HasEntry(pr.rid)

\* C4 (as claimed): when two scheduleReminder calls for two different
\* reminderIds and non-empty day sets, whose steps interleaved and none of
\* whose calls failed, have both returned, the index holds for each of the
\* two reminders exactly that reminder's compositeKeys and no key of the
\* other.
C4_ConcurrentIsolation ==
    \A p, q \in Procs :
        LET a == procs[p]
            b == procs[q]
        IN  (/\ p # q
             /\ a.op = "scheduleReminder" /\ b.op = "scheduleReminder"
             /\ ReturnedOk(a) /\ ReturnedOk(b)
             /\ NoFailure(a) /\ NoFailure(b)
             /\ a.days # <<>> /\ b.days # <<>>
             /\ a.rid # b.rid) =>
               /\ HasEntry(a.rid) /\ HasEntry(b.rid)
               /\ Range(IndexEntry(a.rid)) = KeysFor(a.rid, Range(a.days))
               /\ Range(IndexEntry(b.rid)) = KeysFor(b.rid, Range(b.days))
               /\ Range(IndexEntry(a.rid)) \cap KeysFor(b.rid, WeekDays) = {}

\* C5 (as claimed): operations on one reminderId are serialized, so when two
\* updates with non-empty day sets issued together for one reminder, none of
\* whose calls failed, have both returned, the live triggers of that
\* reminder and its index entry both equal the day set of exactly one of the
\* two updates.
C5_SameReminderSerialized ==
    \A p, q \in Procs :
        LET a == procs[p]
            b == procs[q]
        IN  (/\ p # q
             /\ a.op = "updateReminderNotifications"
             /\ b.op = "updateReminderNotifications"
             /\ ReturnedOk(a) /\ ReturnedOk(b)
             /\ NoFailure(a) /\ NoFailure(b)
             /\ a.days # <<>> /\ b.days # <<>>
             /\ a.rid = b.rid) =>
               \E w \in {a, b} :
                  /\ KeysFor(w.rid, WeekDays) \cap Live
                        = KeysFor(w.rid, Range(w.days))
                  /\ Range(IndexEntry(w.rid)) = KeysFor(w.rid, Range(w.days))

\* C6 (as claimed): whenever no operation is in flight, every live trigger
\* reminder_<id>_day<d> is listed in the index entry of id and every key
\* listed in the index is live.
C6_NoDriftWhenQuiescent ==
    AllIdle =>
        \A r \in ReminderIds :
            KeysFor(r, WeekDays) \cap Live = Range(IndexEntry(r))

\* C7: the weekday handed to the runtime for caller day 6 is 1, for caller
\* day 0 is 2 and for caller day 5 is 7; over the caller days 0..6 the
\* conversion is injective and its image is exactly 1..7.
C7_WeekdayMapping ==
    /\ \A p \in Procs :
          LET pr == procs[p]
          IN  /\ \A k \in 1..Len(pr.reqs) :
                    LET d == pr.days[k]
                        w == pr.reqs[k].trigger.weekday
                    IN  /\ w \in 1..7
                        /\ d = 6 => w = 1
                        /\ d = 0 => w = 2
                        /\ d = 5 => w = 7
              /\ \A j, k \in 1..Len(pr.reqs) :
                    pr.days[j] # pr.days[k] =>
                       pr.reqs[j].trigger.weekday # pr.reqs[k].trigger.weekday
              /\ (Range(pr.days) = WeekDays /\ Len(pr.reqs) = Len(pr.days)) =>
                    {pr.reqs[k].trigger.weekday : k \in 1..Len(pr.reqs)} = 1..7
    /\ \A k \in Live : scheduled[k].weekday \in 1..7

\* C7 witness: a whole week has been requested and Sunday's trigger is live
\* at runtime weekday 1, Monday's at 2 and Saturday's at 7.
C7_Witness ==
    \E p \in Procs :
        LET pr == procs[p]
        IN  /\ pr.days = <<0, 1, 2, 3, 4, 5, 6>>
            /\ Len(pr.reqs) = 7
            /\ KeysFor(pr.rid, WeekDays) \subseteq Live
            /\ scheduled[CompositeKey(pr.rid, 6)].weekday = 1
            /\ scheduled[CompositeKey(pr.rid, 0)].weekday = 2
            /\ scheduled[CompositeKey(pr.rid, 5)].weekday = 7

\* the runtime's numbering (1 = Sunday ... 7 = Saturday) of the caller's days
\* 0 = Monday ... 6 = Sunday, and the fields of an "HH:MM" string
RuntimeDayOf == [d \in WeekDays |-> <<2, 3, 4, 5, 6, 7, 1>>[d + 1]]

HH(time) == 10 * DigitVal(time[1]) + DigitVal(time[2])

MM(time) == 10 * DigitVal(time[4]) + DigitVal(time[5])

\* C8: a create of reminder r at HH:MM on days D issues one repeating
\* schedule request per day, in order, with identifier reminder_<r>_day<d>,
\* the runtime weekday of d, hour HH and minute MM, and has issued exactly
\* one for each d in D when it returns; r1 at 09:00 on days {0,2,4} gives
\* reminder_r1_day0/2/4 at runtime weekdays 2, 4, 6, hour 9, minute 0.
C8_CreateRequests ==
    \A p \in Procs :
        LET pr == procs[p]
        IN  IsCreateOrUpdate(pr) =>
              /\ Len(pr.reqs) <= Len(pr.days)
              /\ \A k \in 1..Len(pr.reqs) :
                    pr.reqs[k] =
                       [identifier |-> CompositeKey(pr.rid, pr.days[k]),
                        trigger |-> [weekday |-> RuntimeDayOf[pr.days[k]],
                                     hour |-> HH(pr.time),
                                     minute |-> MM(pr.time),
                                     repeats |-> TRUE]]
              /\ ReturnedOk(pr) => Len(pr.reqs) = Len(pr.days)
              /\ (ReturnedOk(pr) /\ pr.rid = "r1" /\ pr.days = <<0, 2, 4>>
                    /\ pr.time = <<"0", "9", ":", "0", "0">>) =>
                    /\ [k \in 1..3 |-> pr.reqs[k].identifier] =
                          <<"reminder_r1_day0", "reminder_r1_day2",
                            "reminder_r1_day4">>
                    /\ [k \in 1..3 |-> pr.reqs[k].trigger.weekday] = <<2, 4, 6>>
                    /\ \A k \in 1..3 : /\ pr.reqs[k].trigger.hour = 9
                                       /\ pr.reqs[k].trigger.minute = 0

\* C8 witness: the create of r1 at 09:00 on {0,2,4} has returned and its
\* three triggers are live.
C8_Witness ==
    \E p \in Procs :
        LET pr == procs[p]
        IN  /\ pr.op = "scheduleReminder" /\ ReturnedOk(pr)
            /\ pr.rid = "r1" /\ pr.days = <<0, 2, 4>>
            /\ Len(pr.reqs) = 3
            /\ {"reminder_r1_day0", "reminder_r1_day2", "reminder_r1_day4"}
                  \subseteq Live

\* C9 (as claimed): when an update of reminder r from day set D to day set
\* D' has returned normally, the index entry of r holds exactly the keys of
\* D', those keys are live and no key of a day in D \ D' is live.  Stated
\* for the updates in which no Adapter or storage call of the update itself
\* fails.
C9_UpdateFullReplace ==
    \A p \in Procs :
        LET pr   == procs[p]
            Dnew == Range(pr.days)
            Dold == Range(lastOkDays[pr.rid])
        IN  (/\ ReturnedOk(pr)
             /\ pr.op = "updateReminderNotifications"
             /\ NoFailure(pr)) =>
               /\ Len(IndexEntry(pr.rid)) = Cardinality(Dnew)
               /\ Range(IndexEntry(pr.rid)) = KeysFor(pr.rid, Dnew)
               /\ KeysFor(pr.rid, Dnew) \subseteq Live
               /\ KeysFor(pr.rid, Dold \ Dnew) \cap Live = {}

FailedCalls(pr) == Range(pr.failedAt)

CancelCallFailed(pr) ==
    \E k \in 1..Len(pr.ids) : <<"cancelLoop", k>> \in FailedCalls(pr)

\* C11 (as claimed): when a cancel call of cancelReminderNotifications(r)
\* failed on one recorded key, the operation went on: at its return a cancel
\* has been attempted for every recorded key of r and the index entry of r
\* has been removed.
C11_CancelFailureRecovered ==
    \A p \in Procs :
        LET pr == procs[p]
        IN  (Returned(pr) /\ IsDisable(pr) /\ CancelCallFailed(pr)) =>
               /\ Range(pr.ids) \subseteq Range(pr.cancelled)
               /\ ~HasEntry(pr.rid)

ScheduleCallFailed(pr) ==
    \E k \in 1..Len(pr.days) : <<"schedLoop", k>> \in FailedCalls(pr)

\* C12: a failing schedule call makes the whole create or update fail for
\* its caller: an operation in which a scheduleNotificationAsync call was
\* rejected returns by throwing, and one that returns normally has issued
\* one schedule call per entry of `days`, all of which succeeded.
C12_ScheduleFailureSurfaced ==
    \A p \in Procs :
        LET pr == procs[p]
        IN  (Returned(pr) /\ IsCreateOrUpdate(pr)) =>
               /\ ScheduleCallFailed(pr) => pr.result = "threw"
               /\ pr.result = "ok" =>
                     /\ ~ScheduleCallFailed(pr)
                     /\ Len(pr.reqs) = Len(pr.days)
                     /\ Len(pr.notificationIds) = Len(pr.days)

\* C12 witness: a create or update has returned by throwing after its first
\* schedule call succeeded and its second was rejected.
C12_Witness ==
    \E p \in Procs :
        LET pr == procs[p]
        IN  /\ Returned(pr) /\ IsCreateOrUpdate(pr)
            /\ pr.result = "threw"
            /\ <<"schedLoop", 2>> \in FailedCalls(pr)
            /\ Len(pr.notificationIds) = 1

IndexWriteFailed(pr) ==
    <<"saveGet", 0>> \in FailedCalls(pr) \/ <<"saveSet", 0>> \in FailedCalls(pr)

\* C13 (as claimed): when every schedule call of a create or update on a
\* non-empty day list succeeded and the write of the index entry then failed, the operation
\* does not return plain success to its caller, and the triggers it
\* scheduled stay live.
C13_IndexWriteFailureReported ==
    \A p \in Procs :
        LET pr == procs[p]
        IN  (/\ Returned(pr) /\ IsCreateOrUpdate(pr)
             /\ pr.days # <<>> /\ Len(pr.notificationIds) = Len(pr.days)
             /\ IndexWriteFailed(pr)) =>
               /\ pr.result # "ok"
               /\ KeysFor(pr.rid, Range(pr.days)) \subseteq Live

Malformed(pr) ==
    LET t == ParseTime(pr.time)
    IN  \/ t.hour \notin 0..23
        \/ t.minute \notin 0..59
        \/ pr.days = <<>>

\* C14 (as claimed): while a create or update whose time has an hour
\* outside 0..23 or a minute outside 0..59, or whose day list is empty, is
\* executing and none of its calls fails, no step issues a schedule or cancel call and no step changes
\* the runtime's triggers or the keys the index records for a reminder.
C14_MalformedRejected ==
    [][\A p \in Procs :
          (/\ IsCreateOrUpdate(procs[p]) /\ Malformed(procs[p])
           /\ NoFailure(procs[p]) /\ NoFailure(procs'[p])) =>
             /\ Len(procs'[p].reqs) <= Len(procs[p].reqs)
             /\ Len(procs'[p].cancelled) <= Len(procs[p].cancelled)
             /\ scheduled' = scheduled
             /\ \A r \in ReminderIds :
                   IdsOf(ParseStored(storedIds'), r) =
                      IdsOf(ParseStored(storedIds), r)]_vars

\* C15 (as claimed): a schedule request is never issued for a key that is
\* live in the runtime at that moment: whenever an operation none of whose
\* own calls failed issues scheduleNotificationAsync for
\* reminder_<r>_day<d>, no trigger with that identifier is live, whatever
\* happened to the operations before it.
C15_CancelBeforeSchedule ==
    [][\A p \in Procs :
          (/\ Len(procs'[p].reqs) = Len(procs[p].reqs) + 1
           /\ NoFailure(procs'[p])) =>
             procs'[p].reqs[Len(procs'[p].reqs)].identifier \notin Live]_vars

\* C16 (as claimed): duplicate weekdays are collapsed: when a create or
\* update none of whose calls failed has returned for a well-formed time
\* and a non-empty day list that may name a weekday more than once, the
\* index entry of the reminder lists each
\* key once, its size is the number of distinct days, and one trigger per
\* distinct weekday is live.
C16_DuplicateDaysCollapsed ==
    \A p \in Procs :
        LET pr == procs[p]
            D  == Range(pr.days)
            e  == IndexEntry(pr.rid)
        IN  (/\ ReturnedOk(pr) /\ IsCreateOrUpdate(pr)
             /\ NoFailure(pr) /\ ~Malformed(pr)) =>
               /\ \A j, k \in 1..Len(e) : e[j] = e[k] => j = k
               /\ Len(e) = Cardinality(D)
               /\ KeysFor(pr.rid, D) \subseteq Live

\* C17 (as claimed): an update of reminder r with an empty day list leaves
\* what cancelReminderNotifications(r) leaves: when such an update, none of
\* whose calls failed, has returned, the keys it found recorded are not live
\* and the index holds no entry for r, not even one with an empty list.
C17_DisableIsEmptyUpdate ==
    \A p \in Procs :
        LET pr == procs[p]
        IN  (/\ ReturnedOk(pr) /\ pr.op = "updateReminderNotifications"
             /\ pr.days = <<>> /\ NoFailure(pr)) =>
               /\ Range(pr.cancelled) \cap Live = {}
               /\ ~HasEntry(pr.rid)

\* the step in which p's saveNotificationIds / removeNotificationIds writes
PutWrites(p) ==
    /\ procs[p].pc = "saveSet" /\ procs'[p].pc # "saveSet"
    /\ procs'[p].failedAt = procs[p].failedAt

RemoveWrites(p) ==
    /\ procs[p].pc = "rmSet" /\ procs'[p].pc # "rmSet"
    /\ procs'[p].failedAt = procs[p].failedAt

\* C18 (as claimed): the write of saveNotificationIds(r, keys) makes the
\* entry of r exactly keys and leaves the keys recorded for every other
\* reminderId as they were just before the write, also when operations on other reminders
\* are in flight.  Stated for non-empty day lists and for runs in which no
\* call of an operation in flight has failed.
C18_PutFullReplace ==
    [][\A p \in Procs :
          (/\ PutWrites(p)
           /\ \A q \in Procs : NoFailure(procs[q])
           /\ \A q \in Procs :
                 IsCreateOrUpdate(procs[q]) => procs[q].days # <<>>) =>
             LET old == ParseStored(storedIds)
                 new == ParseStored(storedIds')
                 rid == procs[p].rid
             IN  /\ rid \in DOMAIN new
                 /\ new[rid] = procs[p].notificationIds
                 /\ \A r \in ReminderIds \ {rid} :
                       IdsOf(new, r) = IdsOf(old, r)]_vars

\* the step in which p's getNotificationIds returns
GetReturns(p) == procs[p].pc = "getIds" /\ procs'[p].pc # "getIds"

\* C19 (as claimed): in runs where no Adapter or storage call fails,
\* getNotificationIds(r) returns the list the index records for r (the empty
\* list when it records none), and the write of removeNotificationIds(r)
\* leaves no entry for r and leaves the keys recorded for every other
\* reminderId as they were just before it, also when operations on other
\* reminders are in flight.
C19_GetAndRemove ==
    [][\A p \in Procs :
          LET old == ParseStored(storedIds)
              new == ParseStored(storedIds')
              rid == procs[p].rid
          IN  (failures' = 0) =>
                 /\ GetReturns(p) => procs'[p].ids = IdsOf(old, rid)
                 /\ RemoveWrites(p) =>
                       /\ rid \notin DOMAIN new
                       /\ \A r \in ReminderIds \ {rid} :
                             IdsOf(new, r) = IdsOf(old, r)]_vars

Count(k, seq) == Cardinality({j \in 1..Len(seq) : seq[j] = k})

Running(pr) == pr.pc \notin {"idle", "done"}

\* how far an operation is from its return: the awaits still ahead of it,
\* in program order, and the iterations left of the loop it is in
Phase(pr) ==
    CASE pr.pc = "idle" -> 0
      [] pr.pc = "done" -> 1
      [] pr.pc = "saveSet" -> 3
      [] pr.pc = "saveGet" -> 4
      [] pr.pc = "schedLoop" -> 5
      [] OTHER ->
           (IF pr.frame = "update.cancel" THEN 10 ELSE 6) +
           (CASE pr.pc = "rmSet" -> 0
              [] pr.pc = "rmGet" -> 1
              [] pr.pc = "cancelLoop" -> 2
              [] pr.pc = "getIds" -> 3)

Remaining(pr) ==
    CASE pr.pc = "cancelLoop" -> Len(pr.ids) + 1 - pr.i
      [] pr.pc = "schedLoop" -> Len(pr.days) + 1 - pr.i
      [] OTHER -> 0

\* the operation is suspended at an await whose step is enabled
AtAwait(pr) ==
    /\ pr.pc \in {"getIds", "cancelLoop", "rmGet", "rmSet",
                  "schedLoop", "saveGet", "saveSet"}
    /\ pr.pc = "cancelLoop" => pr.i \in 1..Len(pr.ids)
    /\ pr.pc = "schedLoop" => pr.i \in 1..Len(pr.days)

SvcReturned(op) == svc.op = op /\ svc.pc = "done"

SvcNoFailure == svc.failedAt = <<>>

FixedLive(k) ==
    /\ FixedReminders[k].identifier \in Live
    /\ scheduled[FixedReminders[k].identifier] = FixedRequest(k).trigger

\* C21: when disableReminders has returned and none of its calls failed, no
\* notification is scheduled and the index has no entry left, so no reminderId
\* has an entry naming a trigger that is no longer live.
C21_CancelAllClearsIndex ==
    (SvcReturned("disableReminders") /\ SvcNoFailure)
        => /\ Live = {}
           /\ \A r \in ReminderIds : Range(IndexEntry(r)) \subseteq Live

\* C22: when enableReminders has returned true, the three fixed reminders are
\* live at 10:00, 18:00 and 20:00 and the flag '@notifications_enabled' is
\* 'true'.
C22_EnabledMeansScheduled ==
    (SvcReturned("enableReminders") /\ svc.result = TRUE)
        => /\ \A k \in 1..Len(FixedReminders) : FixedLive(k)
           /\ notificationsEnabled = "true"

\* C27: areRemindersEnabled returns true exactly when the most recently
\* completed of enableReminders / disableReminders was an enableReminders
\* that returned true; and when disableReminders has completed the flag is
\* no longer 'true' and no notification is live.
C27_EnabledTracksLastCall ==
    /\ SvcReturned("areRemindersEnabled")
          => (svc.result = TRUE
                <=> svc.last = [op |-> "enableReminders", result |-> TRUE])
    /\ SvcReturned("disableReminders")
          => (notificationsEnabled # "true" /\ Live = {})

\* C28: when enableReminders has returned and the permission is not granted,
\* it returned false, it scheduled or cancelled no fixed reminder (the
\* triggers are those it found) and the flag has the value it found.
C28_NoPermissionNoEffect ==
    (SvcReturned("enableReminders") /\ permission # "granted")
        => /\ svc.result = FALSE
           /\ svc.k = 0
           /\ scheduled = svc.before.scheduled
           /\ notificationsEnabled = svc.before.notificationsEnabled

\* the user denied the request while a custom reminder was scheduled
C28_Witness ==
    /\ SvcReturned("enableReminders") /\ SvcNoFailure
    /\ permission = "denied" /\ svc.result = FALSE
    /\ scheduled # EmptyObj

\* C29: when an enableReminders that followed an enableReminders returning
\* true has itself returned true, each of the three fixed identifiers has its
\* one live trigger.
C29_EnableIdempotent ==
    (/\ SvcReturned("enableReminders") /\ svc.result = TRUE
     /\ svc.last = [op |-> "enableReminders", result |-> TRUE])
        => \A k \in 1..Len(FixedReminders) :
              FixedReminders[k].identifier \in Live

(***************************************************************************)
(* Failures of the cancel phase.                                           *)
(***************************************************************************)
CancelPhase == {"getIds", "cancelLoop", "rmGet", "rmSet"}

OnlyCancelFailed(pr) ==
    /\ pr.failedAt # <<>>
    /\ \A k \in 1..Len(pr.failedAt) : pr.failedAt[k][1] \in CancelPhase

\* C23: cancelReminderNotifications always returns normally, whatever call
\* of it failed; and a scheduleReminder or updateReminderNotifications whose
\* only failures were in cancelling the old triggers returns normally with
\* one schedule call made for every element of days.
C23_CancelNeverThrows ==
    \A p \in Procs :
        LET pr == procs[p]
        IN  /\ (IsDisable(pr) /\ Returned(pr)) => pr.result = "ok"
            /\ (IsCreateOrUpdate(pr) /\ Returned(pr) /\ OnlyCancelFailed(pr))
                  => (pr.result = "ok" /\ Len(pr.reqs) = Len(pr.days))

\* a create that went on to schedule although a cancel call of it rejected
\* and the old trigger's entry had to be left behind
C23_Witness ==
    \E p \in Procs :
        LET pr == procs[p]
        IN  /\ pr.op = "scheduleReminder" /\ ReturnedOk(pr)
            /\ \E k \in 1..Len(pr.failedAt) : pr.failedAt[k][1] = "cancelLoop"
            /\ pr.reqs # <<>>

(***************************************************************************)
(* scheduleReminder and updateReminderNotifications compared.              *)
(***************************************************************************)
EndState == [scheduled |-> scheduled, storedIds |-> storedIds]

StartEntry(r) == IdsOf(ParseStored(start.storedIds), r)

\* C24: when no call fails, scheduleReminder(r, time, days) and
\* updateReminderNotifications(r, time, days) both end in the one state that
\* is determined by the state they started from, so started from the same
\* state they end with the same triggers and the same index; and the cancel
\* calls an update makes are those of its first cancel pass, one per
\* identifier recorded at the start.
C24_UpdateEqualsSchedule ==
    \A p \in Procs :
        LET pr == procs[p]
        IN  (IsCreateOrUpdate(pr) /\ Returned(pr) /\ NoFailure(pr))
                => /\ pr.result = "ok"
                   /\ EndState = ScheduleEffect(start, pr.rid, pr.time, pr.days)
                   /\ pr.op = "updateReminderNotifications"
                         => pr.cancelled = StartEntry(pr.rid)

\* an update without failure that replaced live triggers of the reminder
C24_Witness ==
    \E p \in Procs :
        LET pr == procs[p]
        IN  /\ pr.op = "updateReminderNotifications"
            /\ ReturnedOk(pr) /\ NoFailure(pr)
            /\ StartEntry(pr.rid) # <<>>
            /\ Range(StartEntry(pr.rid)) \subseteq DOMAIN start.scheduled
            /\ pr.days # <<>>
            /\ Range(pr.reqs) # {}
            /\ EndState # start

(***************************************************************************)
(* The keys of an index entry.                                             *)
(***************************************************************************)
OwnKeys(r) ==
    \A k \in 1..Len(IndexEntry(r)) :
        \E d \in WeekDays : IndexEntry(r)[k] = CompositeKey(r, d)

Completes(p) ==
    /\ procs[p].pc \notin {"idle", "done"}
    /\ procs'[p].pc = "done"
    /\ procs'[p].result = "ok"
    /\ IsCreateOrUpdate(procs'[p])
    /\ procs[p].days # <<>>

\* C25: every key in the index entry of a reminderId r is
\* `reminder_<r>_day<d>` for a weekday d, never a key built from another
\* reminderId; and at the moment a create or update of r completes
\* successfully, which makes it the last successful one of r, every key in
\* the entry of r is built from a day in its (non-empty) days.
C25_EntryKeysFromLastDays ==
    /\ [](\A r \in ReminderIds : OwnKeys(r))
    /\ [][\A p \in Procs :
            Completes(p) =>
               Range(IndexEntry(procs[p].rid))'
                  \subseteq KeysFor(procs[p].rid, Range(procs[p].days))]_vars

(***************************************************************************)
(* The reminders screen and the scheduler.                                 *)
(***************************************************************************)
HandlerRan == screen'.n # screen.n

SchedulerCalled ==
    \E p \in Procs : procs[p].op = "idle" /\ procs'[p].op # "idle"

\* C26: a schedule or cancel call is only ever made by a handler whose API
\* request succeeded, and by createReminder only for a reminder created with
\* enabled = true (then it is a schedule call); a handler whose request
\* failed leaves triggers, index and scheduler calls as they were.
C26_ApiBeforeScheduler ==
    /\ [][SchedulerCalled =>
            /\ HandlerRan /\ screen'.apiOk
            /\ screen'.handler = "createReminder" =>
                  /\ screen'.enabled
                  /\ \A p \in Procs : procs'[p].op \in {"idle", "scheduleReminder"}
         ]_vars
    /\ [][(HandlerRan /\ ~screen'.apiOk) =>
            UNCHANGED <<scheduled, storedIds, procs>>]_vars

\* the second handler's request failed while triggers of an earlier,
\* successful handler are live
C26_Witness ==
    /\ screen.n = 2 /\ ~screen.apiOk /\ AllIdle
    /\ scheduled # EmptyObj /\ storedIds # NullItem

====
